---- MODULE Spec2Model ----
(***************************************************************************)
(* Folder monitor and cloud synchronisation controller                     *)
(* (FolderMonitor.py, Controller.py, CloudSync.py).                        *)
(*                                                                         *)
(* The monitor polls a directory from background worker threads; each poll *)
(* snapshots the directory, diffs the snapshot against previous_state and  *)
(* hands a non-empty diff to the callback, SyncYandexController's          *)
(* handle_changes, which runs on the worker thread.                        *)
(***************************************************************************)
EXTENDS Integers, Sequences, FiniteSets, TLC

\* ------------------------------------------------------------------ bounds
NumPaths == 2       \* entry names that may appear in the watched directory
DiffPaths == 3      \* entry names of the snapshots the diff is enumerated over
MaxBatch == 3       \* paths, and so records, of the batches handle_changes is given
MaxMtime == 2       \* modification times are 1..MaxMtime
MaxThreads == 2     \* worker threads ever spawned (calls of start_monitoring)
MaxFsOps == 2       \* changes the environment makes to the directory

Names == 1..NumPaths
Mtimes == 1..MaxMtime
Threads == 1..MaxThreads

\* An optional value: None is the empty sequence, Some(x) the one-element one.
None == <<>>
Some(x) == <<x>>
Value(opt) == opt[1]

\* ------------------------------------------------------------- file paths
Folder == "watched"

\* os.path.join(self.folder_path, name)
JoinPath(name) == <<Folder, name>>

\* os.path.basename(file_path): the last component, a path of its own
Basename(file_path) == <<file_path[Len(file_path)]>>

VARIABLES
    dirExists,          \* the watched directory exists
    files,              \* entry name -> 0 (absent), -1 (subdirectory), mtime
    fsOps,              \* environment changes made so far
    previous_state,     \* FolderMonitor.previous_state: None or Some(snapshot)
    monitoring,         \* FolderMonitor.monitoring
    monitoring_thread,  \* FolderMonitor.monitoring_thread: 0 (None) or a thread
    thr,                \* the worker threads (_monitor and its locals)
    mpc,                \* the caller thread's position
    lastOp,             \* the lifecycle call the caller completed last
    monitorLog,         \* what FolderMonitor has logged
    overlapped,         \* history: start_monitoring was called on a running monitor
    drive_files,        \* _sync_initial_state: the remote listing
    current_folder_files, \* _sync_initial_state: the local snapshot
    si,                 \* _sync_initial_state: items of the current loop done
    syncCalls,          \* _sync_initial_state: remote calls issued, in order
    syncRaised,         \* _sync_initial_state: calls (by position) that raised;
                        \* position 0 is the listing call
    syncOk,             \* _sync_initial_state: every delete and upload so far
                        \* returned the success status of its operation
    remote,             \* names of the entries of the remote folder, followed
                        \* through initial reconciliation
    observed            \* history: the last iteration of handle_changes

fsVars == <<dirExists, files, fsOps>>
monVars == <<previous_state, monitoring, monitoring_thread>>
callerVars == <<mpc, lastOp, monitorLog, overlapped>>
syncVars == <<drive_files, current_folder_files, si, syncCalls, syncRaised,
              syncOk, remote>>

vars == <<fsVars, monVars, thr, callerVars, syncVars, observed>>

\* ---------------------------------------------------------------- snapshot
\* A snapshot is a Python dict in insertion order: a sequence of
\* <<file_path, mtime>> pairs with distinct paths.
Keys(d) == {d[i][1] : i \in 1..Len(d)}

Lookup(d, k) == d[CHOOSE i \in 1..Len(d) : d[i][1] = k][2]

\* os.listdir returns the entries in arbitrary order; two orders are sampled.
ListOrders(names) ==
    LET n == Cardinality(names)
    IN  {[i \in 1..n |-> i], [i \in 1..n |-> n + 1 - i]}

\* os.path.isfile(file_path)
IsFile(fl, name) == fl[name] > 0

\* get_folder_state without the isfile test: subdirectories are kept
GetFolderStateAllEntries(fl, ord) ==
    LET listed == SelectSeq(ord, LAMBDA n : fl[n] # 0)
    IN  [i \in 1..Len(listed) |-> <<JoinPath(listed[i]), fl[listed[i]]>>]

\* FolderMonitor.get_folder_state on an existing directory
GetFolderState(fl, ord) ==
    LET listed == SelectSeq(ord, LAMBDA n : fl[n] # 0)
        regular == SelectSeq(listed, LAMBDA n : IsFile(fl, n))
    IN  [i \in 1..Len(regular) |-> <<JoinPath(regular[i]), fl[regular[i]]>>]

\* every snapshot of a directory whose entries are among names
Snapshots(names) ==
    {GetFolderState(fl, ord) : fl \in [names -> 0..MaxMtime],
                               ord \in ListOrders(names)}

\* -------------------------------------------------------------------- diff
\* the first loop with the timestamp comparison left out
RECURSIVE DeletedOnly(_, _, _)
DeletedOnly(prev, cur, i) ==
    IF i > Len(prev) THEN <<>>
    ELSE LET rest == DeletedOnly(prev, cur, i + 1)
         IN  IF prev[i][1] \notin Keys(cur)
             THEN <<<<prev[i][1], "deleted">>>> \o rest
             ELSE rest

\* the first loop reporting every surviving path as modified
RECURSIVE DeletedOrKept(_, _, _)
DeletedOrKept(prev, cur, i) ==
    IF i > Len(prev) THEN <<>>
    ELSE LET rest == DeletedOrKept(prev, cur, i + 1)
         IN  IF prev[i][1] \notin Keys(cur)
             THEN <<<<prev[i][1], "deleted">>>> \o rest
             ELSE <<<<prev[i][1], "modified">>>> \o rest

RECURSIVE DeletedOrModified(_, _, _)
\* first loop of has_folder_changed, from entry i of previous_state on
DeletedOrModified(prev, cur, i) ==
    IF i > Len(prev) THEN <<>>
    ELSE LET file_path == prev[i][1]
             mtime == prev[i][2]
             rest == DeletedOrModified(prev, cur, i + 1)
         IN  IF file_path \notin Keys(cur)
             THEN <<<<file_path, "deleted">>>> \o rest
             ELSE IF Lookup(cur, file_path) # mtime
                  THEN <<<<file_path, "modified">>>> \o rest
                  ELSE rest

\* the second loop without its membership test
AddedAll(prev, cur) == [i \in 1..Len(cur) |-> <<cur[i][1], "new">>]

\* second loop of has_folder_changed
Added(prev, cur) ==
    LET fresh == SelectSeq(cur, LAMBDA e : e[1] \notin Keys(prev))
    IN  [i \in 1..Len(fresh) |-> <<fresh[i][1], "new">>]

\* has_folder_changed without the baseline case: None read as an empty dict
HasFolderChangedNoBaseline(prev, cur) ==
    LET p == IF prev = None THEN <<>> ELSE Value(prev)
        changes == DeletedOrModified(p, cur, 1) \o Added(p, cur)
    IN  [is_changed |-> changes # <<>>, changes |-> changes]

\* FolderMonitor.has_folder_changed, given the snapshot it has just taken
HasFolderChanged(prev, cur) ==
    IF prev = None
    THEN [is_changed |-> FALSE, changes |-> <<>>]
    ELSE LET p == Value(prev)
             changes == DeletedOrModified(p, cur, 1) \o Added(p, cur)
         IN  [is_changed |-> changes # <<>>, changes |-> changes]

\* ------------------------------------------------------------- controller
\* action_map.get with the descriptor of "new" as its default: a record of
\* any other kind is uploaded
ActionMapAnyKind(change_type) ==
    Some([method |-> IF change_type = "deleted" THEN "delete"
                     ELSE IF change_type = "modified" THEN "reload" ELSE "load",
          success_code |-> IF change_type = "deleted" THEN 204 ELSE 201,
          success_message |-> "File handled",
          error_message |-> "Handling error",
          alt_code |-> IF change_type = "deleted" THEN Some(202) ELSE None,
          alt_message |-> IF change_type = "deleted"
                          THEN Some("Removing began") ELSE None])

\* SyncYandexController.action_map; action_map.get(change_type) is None for
\* any other kind.  alt_code is optional: action.get("alt_code").
ActionMap(change_type) ==
    CASE change_type = "new" ->
           Some([method |-> "load", success_code |-> 201,
                 success_message |-> "File uploaded",
                 error_message |-> "Upload error",
                 alt_code |-> None, alt_message |-> None])
      [] change_type = "modified" ->
           Some([method |-> "reload", success_code |-> 201,
                 success_message |-> "Cloud updated",
                 error_message |-> "Update error",
                 alt_code |-> None, alt_message |-> None])
      [] change_type = "deleted" ->
           Some([method |-> "delete", success_code |-> 204,
                 success_message |-> "File deleted",
                 error_message |-> "Deletion error",
                 alt_code |-> Some(202), alt_message |-> Some("Removing began")])
      [] OTHER -> None

\* Responses of the remote storage: the three codes of action_map and one
\* other; a body that is JSON with an href, JSON without one, or not JSON.
StatusCodes == {201, 202, 204, 500}
Bodies == {"json_href", "json", "not_json"}
Responses == [status_code : StatusCodes, body : Bodies]
Raise == [raise |-> TRUE]
Outcomes == {Raise} \cup Responses

\* response.json(): raises on a body that is not JSON
JsonRaises(response) == response.body = "not_json"

\* response.json().get("href")
Href(response) ==
    IF response.body = "json_href" THEN Some("href") ELSE None

\* a log record: level, message, what the message is about, detail
Log(level, message, subject, detail) ==
    [level |-> level, message |-> message, subject |-> subject,
     detail |-> detail]

\* SyncYandexController._process_response: the records it logs, and whether
\* it raises (response.json() on a body that is not JSON)
ProcessResponse(response, action, file_path) ==
    IF response.status_code = action.success_code
    THEN [logs |-> <<Log("info", action.success_message, file_path, <<>>)>>,
          raised |-> FALSE]
    ELSE IF action.alt_code # None /\ response.status_code = Value(action.alt_code)
         THEN LET began == Log("info", Value(action.alt_message), file_path, <<>>)
              IN  IF JsonRaises(response)
                  THEN [logs |-> <<began>>, raised |-> TRUE]
                  ELSE IF Href(response) # None
                       THEN [logs |-> <<began,
                                        Log("info", "Link to check status",
                                            file_path, Href(response))>>,
                             raised |-> FALSE]
                       ELSE [logs |-> <<began>>, raised |-> FALSE]
         ELSE IF JsonRaises(response)
              THEN [logs |-> <<>>, raised |-> TRUE]
              ELSE [logs |-> <<Log("info", action.error_message, file_path,
                                   <<response.status_code, response.body>>)>>,
                    raised |-> FALSE]

\* every remote method given the path as the record holds it
MethodArgFullPath(action, file_path) == file_path

\* the argument handle_changes passes to the remote method
MethodArg(action, file_path) ==
    IF action.method = "delete" THEN Basename(file_path) ELSE file_path

\* handle_changes with the try around the whole loop: the first item that
\* raises ends the batch
HandleOneAborting(change, out) ==
    LET file_path == change[1]
        change_type == change[2]
        action == ActionMap(change_type)
        failed == Log("error", "Error handling", file_path, <<change_type>>)
    IN  IF action = None
        THEN [call |-> None, raised |-> FALSE, abort |-> FALSE,
              logs |-> <<Log("warning", "Unknown change type", change_type, <<>>)>>]
        ELSE LET a == Value(action)
                 detected == Log("info", "Detected", file_path, <<change_type>>)
                 call == Some(<<a.method, MethodArg(a, file_path)>>)
             IN  IF out = Raise
                 THEN [call |-> call, raised |-> TRUE, abort |-> TRUE,
                       logs |-> <<detected, failed>>]
                 ELSE LET pr == ProcessResponse(out, a, file_path)
                      IN  [call |-> call, raised |-> pr.raised,
                           abort |-> pr.raised,
                           logs |-> <<detected>> \o pr.logs \o
                                    (IF pr.raised THEN <<failed>> ELSE <<>>)]

\* One iteration of the loop of handle_changes on the record change, the
\* remote method ending as out: the call issued (None when skipped), whether
\* the except clause ran, whether the loop ends, and the records logged.
HandleOne(change, out) ==
    LET file_path == change[1]
        change_type == change[2]
        action == ActionMap(change_type)
        failed == Log("error", "Error handling", file_path, <<change_type>>)
    IN  IF action = None
        THEN [call |-> None, raised |-> FALSE, abort |-> FALSE,
              logs |-> <<Log("warning", "Unknown change type", change_type, <<>>)>>]
        ELSE LET a == Value(action)
                 detected == Log("info", "Detected", file_path, <<change_type>>)
                 call == Some(<<a.method, MethodArg(a, file_path)>>)
             IN  IF out = Raise
                 THEN [call |-> call, raised |-> TRUE, abort |-> FALSE,
                       logs |-> <<detected, failed>>]
                 ELSE LET pr == ProcessResponse(out, a, file_path)
                      IN  [call |-> call, raised |-> pr.raised,
                           abort |-> FALSE,
                           logs |-> <<detected>> \o pr.logs \o
                                    (IF pr.raised THEN <<failed>> ELSE <<>>)]

\* ----------------------------------------------------------------- threads
\* A worker: its position in _monitor, the locals of _monitor (new_state,
\* changes) and of the running handle_changes (idx: the item the loop is at;
\* calls: the remote calls of this batch), and first: it has not completed
\* an iteration yet.
Unborn == [pc |-> "unborn", new_state |-> <<>>, changes |-> <<>>,
           idx |-> 0, calls |-> <<>>, first |-> TRUE]

\* Nothing observed of handle_changes yet.  Once an iteration has run:
\* item, change: the record it was on; out: how the remote call ended (None
\* when none was made); logs: what the iteration logged; firstRaise: the
\* first item of the batch whose iteration reached the except clause, or 0.
NotObserved == [item |-> 0, change |-> <<>>, out |-> None, logs |-> <<>>,
                firstRaise |-> 0]

Alive(w) == thr[w].pc \notin {"unborn", "done", "crashed"}

NoSync ==
    /\ drive_files = <<>>
    /\ current_folder_files = <<>>
    /\ si = 0
    /\ syncCalls = <<>>
    /\ syncRaised = {}
    /\ syncOk = TRUE

\* FolderMonitor.__init__, over a directory with any content
Init ==
    /\ dirExists = TRUE
    /\ files \in {[n \in Names |-> 0], [n \in Names |-> 1]}
    /\ fsOps = 0
    /\ previous_state = None
    /\ monitoring = FALSE
    /\ monitoring_thread = 0
    /\ thr = [w \in Threads |-> Unborn]
    /\ mpc = "idle"
    /\ lastOp = "none"
    /\ monitorLog = <<>>
    /\ overlapped = FALSE
    /\ NoSync
    /\ remote = {}
    /\ observed = NotObserved

\* -------------------------------------------------------------- environment
\* a file is created, or written again: its mtime becomes t
FsWrite(n, t) ==
    /\ fsOps < MaxFsOps
    /\ dirExists
    /\ files[n] # t
    /\ files' = [files EXCEPT ![n] = t]
    /\ fsOps' = fsOps + 1
    /\ UNCHANGED <<dirExists, monVars, thr, callerVars, syncVars, observed>>

\* an entry is removed
FsRemove(n) ==
    /\ fsOps < MaxFsOps
    /\ dirExists
    /\ files[n] # 0
    /\ files' = [files EXCEPT ![n] = 0]
    /\ fsOps' = fsOps + 1
    /\ UNCHANGED <<dirExists, monVars, thr, callerVars, syncVars, observed>>

\* a subdirectory is created
FsMkdir(n) ==
    /\ fsOps < MaxFsOps
    /\ dirExists
    /\ files[n] = 0
    /\ files' = [files EXCEPT ![n] = -1]
    /\ fsOps' = fsOps + 1
    /\ UNCHANGED <<dirExists, monVars, thr, callerVars, syncVars, observed>>

\* the watched directory is removed with all it holds
FsRemoveFolder ==
    /\ fsOps < MaxFsOps
    /\ dirExists
    /\ dirExists' = FALSE
    /\ files' = [n \in DOMAIN files |-> 0]
    /\ fsOps' = fsOps + 1
    /\ UNCHANGED <<monVars, thr, callerVars, syncVars, observed>>

\* the watched directory is created again, empty
FsCreateFolder ==
    /\ fsOps < MaxFsOps
    /\ ~dirExists
    /\ dirExists' = TRUE
    /\ fsOps' = fsOps + 1
    /\ UNCHANGED <<files, monVars, thr, callerVars, syncVars, observed>>

\* ------------------------------------------------------------ FolderMonitor
\* start_monitoring: sets the flag, spawns a thread, overwrites the handle
StartMonitoring ==
    /\ mpc \in {"idle", "sync_done"}
    /\ \E w \in Threads :
        /\ thr[w].pc = "unborn"
        /\ \A v \in Threads : v < w => thr[v].pc # "unborn"
        /\ thr' = [thr EXCEPT ![w] = [Unborn EXCEPT !.pc = "top"]]
        /\ monitoring_thread' = w
    /\ monitoring' = TRUE
    /\ mpc' = "idle"
    /\ lastOp' = "start"
    /\ overlapped' = (overlapped \/ monitoring \/ \E v \in Threads : Alive(v))
    /\ UNCHANGED <<fsVars, previous_state, monitorLog, syncVars, observed>>

\* stop_monitoring up to the join: clears the flag; joins when there is a
\* handle, returns at once when there is none.  It logs nothing.
StopMonitoring ==
    /\ mpc = "idle"
    /\ monitoring' = FALSE
    /\ IF monitoring_thread # 0
       THEN mpc' = "join" /\ UNCHANGED lastOp
       ELSE mpc' = "idle" /\ lastOp' = "stop"
    /\ UNCHANGED <<fsVars, previous_state, monitoring_thread, thr,
                   monitorLog, overlapped, syncVars, observed>>

\* monitoring_thread.join() returns once that thread has ended
JoinReturn ==
    /\ mpc = "join"
    /\ ~Alive(monitoring_thread)
    /\ mpc' = "idle"
    /\ lastOp' = "stop"
    /\ UNCHANGED <<fsVars, monVars, thr, monitorLog, overlapped, syncVars, observed>>

\* _monitor: while self.monitoring (on entry, and after time.sleep)
LoopTop(w) ==
    /\ thr[w].pc \in {"top", "sleep"}
    /\ thr' = [thr EXCEPT ![w].pc = IF monitoring THEN "poll" ELSE "done"]
    /\ UNCHANGED <<fsVars, monVars, callerVars, syncVars, observed>>

\* _monitor: is_changed, new_state, changes = self.has_folder_changed(),
\* and the test of is_changed
Poll(w) ==
    /\ thr[w].pc = "poll"
    /\ IF ~dirExists
       THEN \* os.listdir raises FileNotFoundError; nothing catches it
            thr' = [thr EXCEPT ![w].pc = "crashed"]
       ELSE \E ord \in ListOrders(DOMAIN files) :
              LET cur == GetFolderState(files, ord)
                  res == HasFolderChanged(previous_state, cur)
              IN  thr' = [thr EXCEPT ![w].new_state = cur,
                                     ![w].changes = res.changes,
                                     ![w].idx = IF res.is_changed THEN 1 ELSE 0,
                                     ![w].pc = IF res.is_changed
                                               THEN "callback" ELSE "store"]
    /\ UNCHANGED <<fsVars, monVars, callerVars, syncVars, observed>>

\* handle_changes: the iteration on changes[idx], a record of a known
\* kind, enters the remote method; the call is in flight until it returns or
\* raises
CallStart(w) ==
    /\ thr[w].pc = "callback"
    /\ thr[w].idx <= Len(thr[w].changes)
    /\ ActionMap(thr[w].changes[thr[w].idx][2]) # None
    /\ thr' = [thr EXCEPT ![w].pc = "remote"]
    /\ UNCHANGED <<fsVars, monVars, callerVars, syncVars, observed>>

\* handle_changes: one iteration of its loop, on changes[idx], completed:
\* the remote method in flight ends as out, or the record is skipped
HandleItem(w, out) ==
    /\ thr[w].pc \in {"callback", "remote"}
    /\ thr[w].idx <= Len(thr[w].changes)
    /\ LET t == thr[w]
           r == HandleOne(t.changes[t.idx], out)
       IN  /\ r.call = None => (out = Raise /\ t.pc = "callback")
           /\ r.call # None => t.pc = "remote"
           /\ thr' = [thr EXCEPT
                 ![w].pc = "callback",
                 ![w].calls = IF r.call = None THEN t.calls
                              ELSE Append(t.calls, Value(r.call)),
                 ![w].idx = IF r.abort THEN Len(t.changes) + 1
                            ELSE t.idx + 1]
    /\ UNCHANGED <<fsVars, monVars, callerVars, syncVars>>

\* history of that iteration
Observe(w, out) ==
    LET t == thr[w]
        r == HandleOne(t.changes[t.idx], out)
    IN  observed' = [item |-> t.idx,
                     change |-> t.changes[t.idx],
                     out |-> IF r.call = None THEN None ELSE Some(out),
                     logs |-> r.logs,
                     firstRaise |-> IF observed.firstRaise = 0 /\ r.raised
                                    THEN t.idx ELSE observed.firstRaise]

\* handle_changes returns to _monitor
CallbackReturn(w) ==
    /\ thr[w].pc = "callback"
    /\ thr[w].idx > Len(thr[w].changes)
    /\ thr' = [thr EXCEPT ![w].pc = "store", ![w].idx = 0, ![w].calls = <<>>]
    /\ UNCHANGED <<fsVars, monVars, callerVars, syncVars>>

\* a worker that looks at the flag after the callback too, and ends there,
\* the snapshot not stored, when the monitor has been stopped
StoreUnlessStopped(w) ==
    /\ thr[w].pc = "store"
    /\ IF monitoring
       THEN /\ previous_state' = Some(thr[w].new_state)
            /\ thr' = [thr EXCEPT ![w].pc = "sleep", ![w].new_state = <<>>,
                                  ![w].changes = <<>>, ![w].first = FALSE]
       ELSE /\ thr' = [thr EXCEPT ![w].pc = "done"]
            /\ UNCHANGED previous_state
    /\ UNCHANGED <<fsVars, monitoring, monitoring_thread, callerVars, syncVars, observed>>

\* _monitor: self.previous_state = new_state, then time.sleep(self.interval)
Store(w) ==
    /\ thr[w].pc = "store"
    /\ previous_state' = Some(thr[w].new_state)
    /\ thr' = [thr EXCEPT ![w].pc = "sleep", ![w].new_state = <<>>,
                          ![w].changes = <<>>, ![w].first = FALSE]
    /\ UNCHANGED <<fsVars, monitoring, monitoring_thread, callerVars, syncVars, observed>>

\* ------------------------------------------------ SyncYandexController.start
\* the names the entries of the remote folder may have
RemoteNames == {Basename(JoinPath(n)) : n \in Names}

\* The remote listings get_info may return: entries (by name) in some order.
Listings ==
    {LET listed == SelectSeq(ord, LAMBDA n : n \in S)
     IN  [i \in 1..Len(listed) |-> Basename(JoinPath(listed[i]))] :
        S \in SUBSET Names, ord \in ListOrders(Names)}

\* a loop of _sync_initial_state whose first failing item ends it
AfterAttemptAborting(i, len, out) == IF out = Raise THEN len ELSE i + 1

\* The loops of _sync_initial_state have the try inside: whatever item i's
\* call did, the loop goes on to the next item.
AfterAttempt(i, len, out) == i + 1

\* the remote call returned the success status of its operation
Succeeded(method, out) ==
    /\ out # Raise
    /\ out.status_code = (IF method = "delete" THEN 204 ELSE 201)

\* The remote folder after delete(name): the entry is gone when the call
\* succeeded; after any other outcome (accepted, refused, an error on the
\* way) it may be gone or not.
RemoteAfterDelete(r, name, out) ==
    IF Succeeded("delete", out) THEN {r \ {name}} ELSE {r, r \ {name}}

\* The remote folder after load(file_path): the upload goes to the base
\* name of the path, overwriting; it is there when the call succeeded.
RemoteAfterLoad(r, file_path, out) ==
    IF Succeeded("load", out) THEN {r \cup {Basename(file_path)}}
    ELSE {r, r \cup {Basename(file_path)}}

\* _sync_initial_state: drive_files = self.cloud_sync.get_info(), every page
\* of the listing of the remote folder.  get_info raises on a failed request
\* (raise_for_status); no try surrounds the call, so the exception leaves
\* _sync_initial_state and start.
SyncList ==
    /\ mpc = "start"
    /\ \/ /\ mpc' = "raised"
          /\ syncRaised' = syncRaised \cup {0}
          /\ UNCHANGED <<drive_files, current_folder_files, si, syncCalls,
                         syncOk, remote>>
       \/ /\ \E L \in Listings :
               /\ {L[i] : i \in 1..Len(L)} = remote
               /\ drive_files' = L
          /\ mpc' = "sync_delete"
          /\ si' = 0
          /\ UNCHANGED <<current_folder_files, syncCalls, syncRaised,
                         syncOk, remote>>
    /\ UNCHANGED <<fsVars, monVars, thr, lastOp, monitorLog, overlapped, observed>>

\* _sync_initial_state: one iteration of the loop over drive_files
SyncDelete ==
    /\ mpc = "sync_delete"
    /\ si < Len(drive_files)
    /\ \E out \in Outcomes :
        /\ syncCalls' = Append(syncCalls, <<"delete", drive_files[si + 1]>>)
        /\ syncRaised' = IF out = Raise
                         THEN syncRaised \cup {Len(syncCalls) + 1}
                         ELSE syncRaised
        /\ syncOk' = (syncOk /\ Succeeded("delete", out))
        /\ remote' \in RemoteAfterDelete(remote, drive_files[si + 1], out)
        /\ si' = AfterAttempt(si, Len(drive_files), out)
    /\ UNCHANGED <<fsVars, monVars, thr, callerVars, drive_files,
                   current_folder_files, observed>>

\* reconciliation keeping its snapshot as the monitor's previous_state
SyncStateStoring ==
    /\ mpc = "sync_delete"
    /\ si >= Len(drive_files)
    /\ IF ~dirExists
       THEN /\ mpc' = "raised"
            /\ UNCHANGED <<syncVars, previous_state>>
       ELSE /\ \E ord \in ListOrders(DOMAIN files) :
                 /\ current_folder_files' = GetFolderState(files, ord)
                 /\ previous_state' = Some(GetFolderState(files, ord))
            /\ mpc' = "sync_upload"
            /\ si' = 0
            /\ UNCHANGED <<drive_files, syncCalls, syncRaised, syncOk, remote>>
    /\ UNCHANGED <<fsVars, monitoring, monitoring_thread, thr, lastOp,
                   monitorLog, overlapped, observed>>

\* the snapshot and the uploads not waiting for the loop over drive_files
\* to end
SyncStateEarly ==
    /\ mpc = "sync_delete"
    /\ IF ~dirExists
       THEN /\ mpc' = "raised"
            /\ UNCHANGED syncVars
       ELSE /\ \E ord \in ListOrders(DOMAIN files) :
                 current_folder_files' = GetFolderState(files, ord)
            /\ mpc' = "sync_upload"
            /\ si' = 0
            /\ UNCHANGED <<drive_files, syncCalls, syncRaised, syncOk, remote>>
    /\ UNCHANGED <<fsVars, monVars, thr, lastOp, monitorLog, overlapped, observed>>

\* _sync_initial_state: current_folder_files = get_folder_state(), after the
\* loop over drive_files.  A missing directory raises out of start.
SyncState ==
    /\ mpc = "sync_delete"
    /\ si >= Len(drive_files)
    /\ IF ~dirExists
       THEN /\ mpc' = "raised"
            /\ UNCHANGED syncVars
       ELSE /\ \E ord \in ListOrders(DOMAIN files) :
                 current_folder_files' = GetFolderState(files, ord)
            /\ mpc' = "sync_upload"
            /\ si' = 0
            /\ UNCHANGED <<drive_files, syncCalls, syncRaised, syncOk, remote>>
    /\ UNCHANGED <<fsVars, monVars, thr, lastOp, monitorLog, overlapped, observed>>

\* _sync_initial_state: one iteration of the loop over current_folder_files
SyncUpload ==
    /\ mpc = "sync_upload"
    /\ si < Len(current_folder_files)
    /\ \E out \in Outcomes :
        /\ syncCalls' = Append(syncCalls,
                               <<"load", current_folder_files[si + 1][1]>>)
        /\ syncRaised' = IF out = Raise
                         THEN syncRaised \cup {Len(syncCalls) + 1}
                         ELSE syncRaised
        /\ syncOk' = (syncOk /\ Succeeded("load", out))
        /\ remote' \in RemoteAfterLoad(remote, current_folder_files[si + 1][1], out)
        /\ si' = AfterAttempt(si, Len(current_folder_files), out)
    /\ UNCHANGED <<fsVars, monVars, thr, callerVars, drive_files,
                   current_folder_files, observed>>

\* _sync_initial_state returns; start goes on to start_monitoring
SyncReturn ==
    /\ mpc = "sync_upload"
    /\ si >= Len(current_folder_files)
    /\ mpc' = "sync_done"
    /\ UNCHANGED <<fsVars, monVars, thr, lastOp, monitorLog, overlapped, syncVars, observed>>

\* an iteration of handle_changes on the worker, whatever the remote answers
HandleChanges(w) ==
    \E out \in Outcomes : HandleItem(w, out) /\ UNCHANGED observed

\* the same iteration with its history kept
HandleChangesObserved(w) ==
    \E out \in Outcomes : HandleItem(w, out) /\ Observe(w, out)

Environment ==
    \/ \E n \in DOMAIN files, t \in Mtimes : FsWrite(n, t)
    \/ \E n \in DOMAIN files : FsRemove(n)
    \/ \E n \in DOMAIN files : FsMkdir(n)
    \/ FsRemoveFolder
    \/ FsCreateFolder

Worker(w) ==
    \/ LoopTop(w)
    \/ Poll(w)
    \/ CallStart(w)
    \/ HandleChanges(w)
    \/ CallbackReturn(w) /\ UNCHANGED observed
    \/ Store(w)

\* The monitor driven by a caller: start_monitoring(handle_changes) and
\* stop_monitoring in any order, the directory changing underneath.
Next ==
    \/ Environment
    \/ StartMonitoring
    \/ StopMonitoring
    \/ JoinReturn
    \/ \E w \in Threads : Worker(w)

Spec == Init /\ [][Next]_vars

\* ------------------------------------------ has_folder_changed on its own
\* One worker about to poll, over every previous_state and every directory
\* content of DiffPaths entries.
InitDiff ==
    /\ dirExists = TRUE
    /\ files \in [1..DiffPaths -> -1..MaxMtime]
    /\ fsOps = 0
    /\ previous_state \in {None} \cup {Some(d) : d \in Snapshots(1..DiffPaths)}
    /\ monitoring = TRUE
    /\ monitoring_thread = 1
    /\ thr = [w \in Threads |->
                IF w = 1 THEN [Unborn EXCEPT !.pc = "poll"]
                ELSE Unborn]
    /\ mpc = "idle"
    /\ lastOp = "start"
    /\ monitorLog = <<>>
    /\ overlapped = FALSE
    /\ NoSync
    /\ remote = {}
    /\ observed = NotObserved

NextDiff == \E w \in Threads : Poll(w)

SpecDiff == InitDiff /\ [][NextDiff]_vars

\* ---------------------------------------------- handle_changes on its own
\* "renamed" stands for any kind that action_map does not hold.
Kinds == {"new", "modified", "deleted", "renamed"}
ChangeRecords == {<<JoinPath(n), k>> : n \in 1..MaxBatch, k \in Kinds}

\* lists of change records with one record per path at most, as a diff has
Batches ==
    {b \in UNION {[1..n -> ChangeRecords] : n \in 0..MaxBatch} :
        \A i, j \in 1..Len(b) : b[i][1] = b[j][1] => i = j}

\* One worker inside the callback, handle_changes entered with any batch.
InitHandle ==
    /\ dirExists = TRUE
    /\ files = [n \in Names |-> 0]
    /\ fsOps = 0
    /\ previous_state = Some(<<>>)
    /\ monitoring = TRUE
    /\ monitoring_thread = 1
    /\ \E b \in Batches :
         thr = [w \in Threads |->
                  IF w = 1 THEN [Unborn EXCEPT !.pc = "callback",
                                               !.changes = b, !.idx = 1]
                  ELSE Unborn]
    /\ mpc = "idle"
    /\ lastOp = "start"
    /\ monitorLog = <<>>
    /\ overlapped = FALSE
    /\ NoSync
    /\ remote = {}
    /\ observed = NotObserved

NextHandle ==
    \/ \E w \in Threads : CallStart(w)
    \/ \E w \in Threads : HandleChangesObserved(w)
    \/ \E w \in Threads : CallbackReturn(w) /\ UNCHANGED observed

SpecHandle == InitHandle /\ [][NextHandle]_vars

\* ------------------------------------------- controller.start on its own
\* start called on a fresh controller, over any directory content and any
\* remote folder.
InitSync ==
    /\ dirExists \in BOOLEAN
    /\ files \in [Names -> -1..MaxMtime]
    /\ ~dirExists => files = [n \in Names |-> 0]
    /\ fsOps = 0
    /\ previous_state = None
    /\ monitoring = FALSE
    /\ monitoring_thread = 0
    /\ thr = [w \in Threads |-> Unborn]
    /\ mpc = "start"
    /\ lastOp = "none"
    /\ monitorLog = <<>>
    /\ overlapped = FALSE
    /\ NoSync
    /\ remote \in SUBSET RemoteNames
    /\ observed = NotObserved

NextSync ==
    \/ SyncList
    \/ SyncDelete
    \/ SyncState
    \/ SyncUpload
    \/ SyncReturn
    \/ StartMonitoring

SpecSync == InitSync /\ [][NextSync]_vars

\* the same start with the directory changing while it runs
NextStart ==
    \/ Environment
    \/ SyncList
    \/ SyncDelete
    \/ SyncState
    \/ SyncUpload
    \/ SyncReturn
    \/ StartMonitoring

SpecStart == InitSync /\ [][NextStart]_vars

\* --------------------------------------------- a monitor that stays running
\* start_monitoring has been called once on a fresh monitor and
\* stop_monitoring is not called; the directory changes underneath.  The
\* worker thread is scheduled fairly and every remote call ends.
InitLive ==
    /\ dirExists = TRUE
    /\ files \in {[n \in Names |-> 0], [n \in Names |-> 1]}
    /\ fsOps = 0
    /\ previous_state = None
    /\ monitoring = TRUE
    /\ monitoring_thread = 1
    /\ thr = [w \in Threads |->
                IF w = 1 THEN [Unborn EXCEPT !.pc = "top"] ELSE Unborn]
    /\ mpc = "idle"
    /\ lastOp = "start"
    /\ monitorLog = <<>>
    /\ overlapped = FALSE
    /\ NoSync
    /\ remote = {}
    /\ observed = NotObserved

NextLive ==
    \/ Environment
    \/ \E w \in Threads : Worker(w)

SpecLive ==
    InitLive /\ [][NextLive]_vars /\ \A w \in Threads : WF_vars(Worker(w))

\* ------------------------------------- controller.start and what follows it
\* start: self.folder_monitor.start_monitoring(self.handle_changes), reached
\* once _sync_initial_state has returned
StartAfterSync ==
    /\ mpc = "sync_done"
    /\ StartMonitoring

\* start called on a fresh controller over an existing directory whose
\* entries are absent, subdirectories or files (reconciliation and the
\* baseline read no timestamp), and any remote folder
InitBoot ==
    /\ dirExists = TRUE
    /\ files \in [Names -> -1..1]
    /\ fsOps = 0
    /\ previous_state = None
    /\ monitoring = FALSE
    /\ monitoring_thread = 0
    /\ thr = [w \in Threads |-> Unborn]
    /\ mpc = "start"
    /\ lastOp = "none"
    /\ monitorLog = <<>>
    /\ overlapped = FALSE
    /\ NoSync
    /\ remote \in SUBSET RemoteNames
    /\ observed = NotObserved

\* One call of start on a fresh controller, then the worker it spawned
\* polling, the directory changing throughout.
NextBoot ==
    \/ Environment
    \/ SyncList
    \/ SyncDelete
    \/ SyncState
    \/ SyncUpload
    \/ SyncReturn
    \/ StartAfterSync
    \/ \E w \in Threads : Worker(w)

SpecBoot == InitBoot /\ [][NextBoot]_vars

\* ================================================================== claims

Polled(w) == thr[w].pc \in {"callback", "store"}

\* ------------------------------------------------------------------- C1
\* C1 as amended: a poll made while no previous snapshot exists (the first
\* poll of a monitor instance) never leads to the callback: no worker is in
\* the callback while previous_state is None, and a worker that has polled
\* then holds an empty list of changes; what it saw only becomes the baseline.
C1_BaselinePollSilent ==
    \A w \in Threads :
        /\ thr[w].pc = "callback" => previous_state # None
        /\ (Polled(w) /\ previous_state = None) => thr[w].changes = <<>>

\* a first poll over a non-empty directory that goes straight to the store
C1_Witness ==
    \E w \in Threads :
        /\ thr[w].first
        /\ thr[w].pc = "store"
        /\ previous_state = None
        /\ thr[w].new_state # <<>>

\* C1 as stated: after every start_monitoring the first poll does not invoke
\* the callback; stated here only of a monitor that was never started while
\* running, where each start has one worker and that worker's first poll is
\* the first poll after the start.
C1_FirstPollOfEveryStartSilent ==
    ~overlapped =>
        \A w \in Threads : ~(thr[w].first /\ thr[w].pc = "callback")

\* ------------------------------------------------------------------- C2
\* the remote call handle_changes makes for a record of a known kind
CallFor(change) ==
    CASE change[2] = "new" -> <<<<"load", change[1]>>>>
      [] change[2] = "modified" -> <<<<"reload", change[1]>>>>
      [] change[2] = "deleted" -> <<<<"delete", <<change[1][2]>>>>>>
      [] OTHER -> <<>>

RECURSIVE CallsFor(_)
CallsFor(batch) ==
    IF batch = <<>> THEN <<>>
    ELSE CallFor(Head(batch)) \o CallsFor(Tail(batch))

\* C2: whatever the remote calls of a batch did (returned any response, or
\* raised, in the call or in reading the response), the loop of
\* handle_changes has issued, in batch order, the call of every record it
\* has passed, and it ends only after the last record: a failure at item k
\* does not keep the calls of items k+1..n from being made.
C2_NoEarlyAbort ==
    \A w \in Threads :
        thr[w].pc = "callback" =>
            /\ thr[w].idx <= Len(thr[w].changes) + 1
            /\ thr[w].calls = CallsFor(SubSeq(thr[w].changes, 1, thr[w].idx - 1))
            /\ observed.item = thr[w].idx - 1

\* a batch of three known records, finished, whose first item raised
C2_Witness ==
    \E w \in Threads :
        /\ thr[w].pc = "callback"
        /\ Len(thr[w].changes) >= 3
        /\ thr[w].idx = Len(thr[w].changes) + 1
        /\ observed.firstRaise = 1
        /\ Len(thr[w].calls) = Len(thr[w].changes)

\* ------------------------------------------------------------------- C3
DeleteCalls(listing) == [i \in 1..Len(listing) |-> <<"delete", listing[i]>>]
UploadCalls(state) == [i \in 1..Len(state) |-> <<"load", state[i][1]>>]

\* C3: initial reconciliation issues one delete per entry of the listing, by
\* name, then one upload per file of the local snapshot, whatever the
\* earlier calls did: each loop reaches its end only with every item
\* attempted.
C3_EveryItemAttempted ==
    /\ mpc = "sync_delete" =>
          /\ si <= Len(drive_files)
          /\ syncCalls = SubSeq(DeleteCalls(drive_files), 1, si)
    /\ mpc = "sync_upload" =>
          /\ si <= Len(current_folder_files)
          /\ syncCalls = DeleteCalls(drive_files)
                           \o SubSeq(UploadCalls(current_folder_files), 1, si)
    /\ mpc = "sync_done" =>
          syncCalls = DeleteCalls(drive_files)
                        \o UploadCalls(current_folder_files)

\* two remote entries and a local file, the first delete having raised
C3_Witness ==
    /\ mpc = "sync_done"
    /\ Len(drive_files) = 2
    /\ Len(current_folder_files) >= 1
    /\ 1 \in syncRaised
    /\ Len(syncCalls) = Len(drive_files) + Len(current_folder_files)

\* ------------------------------------------------------------------- C4
\* C4: a poll whose snapshot fails does not end the worker: no worker thread
\* ever terminates with an exception.
C4_WorkerSurvivesFailedSnapshot ==
    \A w \in Threads : thr[w].pc # "crashed"

\* ------------------------------------------------------------------- C5
\* what an iteration logged after its "Detected" record
Outcome(logs) == Tail(logs)

IsSuccessLog(l, change) ==
    /\ l.message = (IF change[2] = "deleted" THEN "File deleted"
                    ELSE IF change[2] = "new" THEN "File uploaded"
                    ELSE "Cloud updated")
    /\ l.subject = change[1]

IsErrorLog(l, change, response) ==
    /\ l.message = (IF change[2] = "deleted" THEN "Deletion error"
                    ELSE IF change[2] = "new" THEN "Upload error"
                    ELSE "Update error")
    /\ l.subject = change[1]
    /\ l.detail = <<response.status_code, response.body>>

\* C5: for every response a remote call returned, the iteration logs exactly
\* the one class its status selects: for a deletion, 204 success, 202 the
\* in-progress message (and the link when the body carries an href), any
\* other status the error with the status code and the body; for an upload
\* or update, 201 success and any other status the error.
C5_ResponseClassified ==
    (observed.item > 0 /\ observed.out # None /\ Value(observed.out) # Raise) =>
        LET change == observed.change
            response == Value(observed.out)
            out == Outcome(observed.logs)
            status == response.status_code
        IN  IF change[2] = "deleted"
            THEN CASE status = 204 ->
                        Len(out) = 1 /\ IsSuccessLog(out[1], change)
                   [] status = 202 ->
                        /\ Len(out) = (IF response.body = "json_href" THEN 2 ELSE 1)
                        /\ out[1].message = "Removing began"
                        /\ Len(out) = 2 => out[2].message = "Link to check status"
                   [] OTHER ->
                        Len(out) = 1 /\ IsErrorLog(out[1], change, response)
            ELSE IF status = 201
                 THEN Len(out) = 1 /\ IsSuccessLog(out[1], change)
                 ELSE Len(out) = 1 /\ IsErrorLog(out[1], change, response)

\* ------------------------------------------------------------------- C6
\* the records the claim lists for a pair of snapshots
DiffSet(prev, cur) ==
    {<<k, "deleted">> : k \in Keys(prev) \ Keys(cur)}
      \cup {<<k, "modified">> :
              k \in {j \in Keys(prev) \cap Keys(cur) :
                       Lookup(prev, j) # Lookup(cur, j)}}
      \cup {<<k, "new">> : k \in Keys(cur) \ Keys(prev)}

Records(changes) == {changes[i] : i \in 1..Len(changes)}

\* C6: the records of a diff are exactly: Deleted for each path of previous
\* not in current, Modified for each path in both with different
\* timestamps, New for each path of current not in previous; no path is in
\* two records.
C6_DiffIsTheSetOfChanges ==
    \A w \in Threads :
        (Polled(w) /\ previous_state # None) =>
            /\ Records(thr[w].changes)
                 = DiffSet(Value(previous_state), thr[w].new_state)
            /\ Cardinality({c[1] : c \in Records(thr[w].changes)})
                 = Len(thr[w].changes)

\* one path removed, one modified, one added
C6_Witness ==
    \E w \in Threads :
        /\ Polled(w)
        /\ previous_state # None
        /\ {c[2] : c \in Records(thr[w].changes)} = {"deleted", "modified", "new"}

\* ------------------------------------------------------------------- C7
\* dict equality: the same mapping, whatever the insertion order
SameDict(d, e) ==
    /\ Keys(d) = Keys(e)
    /\ \A k \in Keys(d) : Lookup(d, k) = Lookup(e, k)

\* C7: a poll whose snapshot equals the previous snapshot yields the empty
\* list of changes and does not go to the callback.
C7_SameSnapshotNoChange ==
    \A w \in Threads :
        (/\ Polled(w)
         /\ previous_state # None
         /\ SameDict(Value(previous_state), thr[w].new_state)) =>
            /\ thr[w].changes = <<>>
            /\ thr[w].pc = "store"

\* two files, unchanged between the two snapshots
C7_Witness ==
    \E w \in Threads :
        /\ Polled(w)
        /\ previous_state # None
        /\ Len(thr[w].new_state) >= 2
        /\ SameDict(Value(previous_state), thr[w].new_state)
        /\ thr[w].pc = "store"

\* ------------------------------------------------------------------- C8
\* d and e agree on every path but k
AgreeBut(d, e, k) ==
    /\ Keys(d) \ {k} = Keys(e) \ {k}
    /\ \A j \in Keys(d) \ {k} : Lookup(d, j) = Lookup(e, j)

\* C8: two snapshots that differ in one path yield exactly one record, of
\* the matching kind: New for a path added, Deleted for a path removed,
\* Modified for a path whose timestamp alone changed.
C8_SinglePathDifference ==
    \A w \in Threads :
        (Polled(w) /\ previous_state # None) =>
            LET prev == Value(previous_state)
                cur == thr[w].new_state
            IN  \A k \in Keys(prev) \cup Keys(cur) :
                    AgreeBut(prev, cur, k) =>
                        /\ (k \notin Keys(prev)) =>
                               thr[w].changes = <<<<k, "new">>>>
                        /\ (k \notin Keys(cur)) =>
                               thr[w].changes = <<<<k, "deleted">>>>
                        /\ (/\ k \in Keys(prev) \cap Keys(cur)
                            /\ Lookup(prev, k) # Lookup(cur, k)) =>
                               thr[w].changes = <<<<k, "modified">>>>

\* three files, of which one has a new timestamp
C8_Witness ==
    \E w \in Threads :
        /\ Polled(w)
        /\ previous_state # None
        /\ Len(Value(previous_state)) = 3
        /\ Len(thr[w].changes) = 1
        /\ thr[w].changes[1][2] = "modified"

\* ------------------------------------------------------------------- C9
\* C9: once stop_monitoring has returned, and until the next start, the
\* monitor is idle and none of its workers is alive (so none takes a
\* snapshot or invokes the callback).
C9_StoppedMeansNoWorker ==
    (lastOp = "stop" /\ mpc = "idle") =>
        /\ ~monitoring
        /\ \A w \in Threads : ~Alive(w)

\* ------------------------------------------------------------------ C10
\* C10: stop_monitoring called on an idle monitor changes neither the flag,
\* the previous snapshot nor the handle, and logs a warning.
C10_StopWhileIdleWarns ==
    [][(StopMonitoring /\ ~monitoring) =>
          /\ UNCHANGED <<monitoring, previous_state, monitoring_thread>>
          /\ monitorLog' = Append(monitorLog, "warning")]_vars

\* ------------------------------------------------------------------ C11
LiveWorkers == {w \in Threads : Alive(w)}

\* C11: start_monitoring on a running monitor spawns no second worker: at
\* most one worker of the monitor is alive in every reachable state.
C11_AtMostOneLiveWorker == Cardinality(LiveWorkers) <= 1

\* ------------------------------------------------------------------ C12
InFlight == {w \in Threads : thr[w].pc = "remote"}

\* C12: the remote calls triggered by detected changes run one at a time: at
\* most one of them is in flight, and no poll is made while a batch is
\* still being processed.
C12_OneRemoteCallInFlight ==
    /\ Cardinality(InFlight) <= 1
    /\ \A w, v \in Threads :
         (thr[w].pc \in {"callback", "remote"} /\ v # w) => thr[v].pc # "poll"

\* ------------------------------------------------------------------ C13
\* C13: when every remote call of the startup fails, the listing call
\* included, no exception leaves initial reconciliation or start: start is
\* never ended by the exception of the listing call.
C13_FailedListingStaysInside == ~(mpc = "raised" /\ 0 \in syncRaised)

\* ------------------------------------------------------------------ C14
KnownKinds == {"new", "modified", "deleted"}

KnownAmong(batch) == SelectSeq(batch, LAMBDA c : c[2] \in KnownKinds)

\* C14: a record whose kind is not new, modified or deleted is skipped with
\* a warning: its iteration makes no remote call (none is ever in flight for
\* it), logs the one warning naming the kind, does not reach the except
\* clause, and the loop goes on to the next record; the calls of the batch
\* are those of its other records.
C14_UnknownKindSkipped ==
    \A w \in Threads :
        /\ thr[w].pc = "remote" =>
              thr[w].changes[thr[w].idx][2] \in KnownKinds
        /\ (/\ thr[w].pc = "callback"
            /\ observed.item > 0
            /\ observed.change[2] \notin KnownKinds) =>
              /\ observed.out = None
              /\ observed.logs = <<Log("warning", "Unknown change type",
                                       observed.change[2], <<>>)>>
              /\ observed.firstRaise # observed.item
              /\ thr[w].idx = observed.item + 1
              /\ Len(thr[w].calls)
                   = Len(KnownAmong(SubSeq(thr[w].changes, 1, observed.item)))

\* a finished batch of three whose second record is of an unknown kind and
\* whose other two records had their calls made
C14_Witness ==
    \E w \in Threads :
        /\ thr[w].pc = "callback"
        /\ Len(thr[w].changes) = 3
        /\ thr[w].idx = 4
        /\ thr[w].changes[2][2] \notin KnownKinds
        /\ thr[w].changes[1][2] \in KnownKinds
        /\ thr[w].changes[3][2] \in KnownKinds
        /\ Len(thr[w].calls) = 2

\* ------------------------------------------------------------------ C15
\* C15: the iteration on a record of a known kind invokes one remote
\* operation, and it is: upload with the full path for new, update with the
\* full path for modified, delete with the base name alone for deleted.
C15_KindSelectsOperation ==
    \A w \in Threads :
        (/\ thr[w].pc = "callback"
         /\ observed.item > 0
         /\ observed.change[2] \in KnownKinds) =>
            LET file_path == observed.change[1]
                kind == observed.change[2]
                before == KnownAmong(SubSeq(thr[w].changes, 1, observed.item - 1))
            IN  /\ Len(thr[w].calls) = Len(before) + 1
                /\ thr[w].calls[Len(thr[w].calls)] =
                     (CASE kind = "new" -> <<"load", file_path>>
                        [] kind = "modified" -> <<"reload", file_path>>
                        [] kind = "deleted" -> <<"delete", <<file_path[2]>>>>)

\* a finished batch holding a record of each known kind, three calls made
C15_Witness ==
    \E w \in Threads :
        /\ thr[w].pc = "callback"
        /\ thr[w].idx = 4
        /\ {thr[w].changes[i][2] : i \in 1..Len(thr[w].changes)} = KnownKinds
        /\ Len(thr[w].calls) = 3

\* ------------------------------------------------------------------ C16
\* base names of the regular files the watched directory holds
LocalNames == {Basename(JoinPath(n)) : n \in {m \in DOMAIN files : IsFile(files, m)}}

\* C16: when initial reconciliation has finished, every delete and upload
\* having returned its success status and the directory not having changed
\* meanwhile, the names of the remote entries are exactly the base names of
\* the local regular files, whatever the remote folder held at the start.
C16_ExactMirror ==
    (mpc = "sync_done" /\ syncOk /\ fsOps = 0) => remote = LocalNames

\* reconciliation finished with every call successful: two remote entries
\* were listed, one of them named as the one local file
C16_Witness ==
    /\ mpc = "sync_done"
    /\ syncOk
    /\ fsOps = 0
    /\ Len(drive_files) = 2
    /\ Len(current_folder_files) = 1
    /\ Len(syncCalls) = 3

\* ------------------------------------------------------------------ C17
Methods(calls) == [i \in 1..Len(calls) |-> calls[i][1]]

\* the calls made so far are deletes
OnlyDeletes == \A i \in 1..Len(syncCalls) : syncCalls[i][1] = "delete"

\* the calls made so far are a delete for each listed entry, then uploads
DeletesThenUploads ==
    /\ Len(syncCalls) >= Len(drive_files)
    /\ \A i \in 1..Len(syncCalls) :
         syncCalls[i][1] = (IF i <= Len(drive_files) THEN "delete" ELSE "load")

\* C17: initial reconciliation lists, then deletes, then uploads.  No call
\* is made before the listing has returned; while the deletes are being made
\* no snapshot has been taken and no upload issued; every upload follows the
\* last delete attempt; and the snapshot is assigned in one step only, taken
\* when every listed entry has had its delete attempted, as the content the
\* directory has at that moment.
C17_ListDeleteSnapshotUpload ==
    /\ [](/\ mpc = "start" => (syncCalls = <<>> /\ current_folder_files = <<>>)
          /\ mpc = "sync_delete" => (OnlyDeletes /\ current_folder_files = <<>>)
          /\ mpc \in {"sync_upload", "sync_done"} => DeletesThenUploads)
    /\ [][current_folder_files' # current_folder_files =>
            /\ mpc = "sync_delete"
            /\ Len(syncCalls) = Len(drive_files)
            /\ syncCalls' = syncCalls
            /\ \E ord \in ListOrders(DOMAIN files) :
                 current_folder_files' = GetFolderState(files, ord)]_vars

\* reconciliation finished after two deletes and two uploads, the directory
\* having changed while it ran
C17_Witness ==
    /\ mpc = "sync_done"
    /\ fsOps >= 1
    /\ Methods(syncCalls) = <<"delete", "delete", "load", "load">>

\* ------------------------------------------------------------------ C18
\* positions of a worker inside an iteration of the loop of _monitor
InIteration == {"poll", "callback", "remote", "store"}

\* C18: the flag is read at the top of the loop only.  A stop_monitoring
\* step changes nothing of any worker.  A worker inside an iteration moves
\* on through it whatever the flag is: it never ends there, and from the
\* store it goes to the sleep with previous_state set to the snapshot of the
\* iteration.  A worker ends only at the loop top and only reading the flag
\* as cleared, and it enters an iteration only reading the flag as set.
C18_CancellationOnlyAtLoopTop ==
    [][/\ StopMonitoring => thr' = thr
       /\ \A w \in Threads :
            /\ (thr[w].pc \in InIteration /\ thr'[w] # thr[w]) =>
                   thr'[w].pc \in InIteration \cup {"sleep", "crashed"}
            /\ (thr[w].pc = "store" /\ thr'[w] # thr[w]) =>
                   /\ thr'[w].pc = "sleep"
                   /\ previous_state' = Some(thr[w].new_state)
            /\ (thr[w].pc # "done" /\ thr'[w].pc = "done") =>
                   (thr[w].pc \in {"top", "sleep"} /\ ~monitoring)
            /\ (thr[w].pc \notin InIteration /\ thr'[w].pc \in InIteration) =>
                   (thr[w].pc \in {"top", "sleep"} /\ monitoring
                    /\ thr'[w].pc = "poll")]_vars

\* the only worker of a monitor past the first record of a batch of two,
\* stop_monitoring having cleared the flag and waiting in the join
C18_Witness ==
    /\ ~overlapped
    /\ ~monitoring
    /\ mpc = "join"
    /\ \E w \in Threads :
         /\ monitoring_thread = w
         /\ thr[w].pc \in {"callback", "remote"}
         /\ Len(thr[w].changes) = 2
         /\ thr[w].idx = 2

\* ------------------------------------------------------------------ C19
\* The snapshot the next poll will be diffed against: the one a worker in
\* mid-iteration is about to store, else previous_state.
NextBaseline ==
    IF \E w \in Threads : thr[w].pc \in {"callback", "remote", "store"}
    THEN Some(thr[CHOOSE w \in Threads :
                    thr[w].pc \in {"callback", "remote", "store"}].new_state)
    ELSE previous_state

\* the next poll, made now, would report the record <<path of n, kind>>
Pending(n, kind) ==
    /\ dirExists
    /\ NextBaseline # None
    /\ <<JoinPath(n), kind>>
         \in DiffSet(Value(NextBaseline),
                     GetFolderState(files, [i \in DOMAIN files |-> i]))

\* the callback is running on a batch that holds the record
Dispatched(n, kind) ==
    \E w \in Threads :
        /\ thr[w].pc \in {"callback", "remote"}
        /\ <<JoinPath(n), kind>> \in Records(thr[w].changes)

\* C19: while the monitor stays running, a change to the directory made
\* after the baseline (a file created, removed, or given another timestamp)
\* leads to a callback whose batch holds the record of that path and kind,
\* unless the directory changes again for that path before a poll sees it.
C19_ChangeEventuallyDispatched ==
    \A n \in Names, kind \in KnownKinds, t \in 0..MaxMtime :
        (Pending(n, kind) /\ files[n] = t)
            ~> (Dispatched(n, kind) \/ files[n] # t \/ ~dirExists)

\* ------------------------------------------------------------------ C20
\* what the snapshot d holds for the path k: its timestamp, 0 when absent
Held(d, k) == IF k \in Keys(d) THEN Lookup(d, k) ELSE 0

\* C20: a detected change is dispatched in one batch only: two batches
\* being handled never hold the same record for a path that both their
\* snapshots saw in the same state.
C20_ChangeDispatchedOnce ==
    \A w, v \in Threads :
        (/\ w # v
         /\ thr[w].pc \in {"callback", "remote"}
         /\ thr[v].pc \in {"callback", "remote"}) =>
            \A c \in Records(thr[w].changes) \cap Records(thr[v].changes) :
                Held(thr[w].new_state, c[1]) # Held(thr[v].new_state, c[1])

\* ------------------------------------------------------------------ C21
\* paths initial reconciliation has attempted to upload
UploadAttempted == {syncCalls[i][2] : i \in {j \in 1..Len(syncCalls) :
                                              syncCalls[j][1] = "load"}}

\* C21: every file of the baseline snapshot (the snapshot of the first poll,
\* held by the worker that took it and then stored as previous_state) has
\* had its upload attempted by initial reconciliation.
C21_BaselineFilesWereUploaded ==
    \A w \in Threads :
        (thr[w].first /\ thr[w].pc = "store" /\ previous_state = None) =>
            Keys(thr[w].new_state) \subseteq UploadAttempted

\* ------------------------------------------------------------------ C22
InStart == mpc \in {"start", "sync_delete", "sync_upload", "sync_done", "raised"}

\* C22: start completes initial reconciliation before it spawns the worker.
\* While start is inside reconciliation (or has been ended by an exception)
\* no worker exists, the monitor is idle and previous_state is unset, so no
\* poll snapshot is taken and no call is made for a diff; once a worker
\* exists every delete and upload of reconciliation has been attempted and
\* none is made any more; and the step in which reconciliation takes its
\* own snapshot leaves previous_state unset.
C22_ReconciliationBeforeWorker ==
    /\ [](InStart =>
            /\ \A w \in Threads : thr[w].pc = "unborn"
            /\ ~monitoring
            /\ previous_state = None)
    /\ []((\E w \in Threads : thr[w].pc # "unborn") =>
            syncCalls = DeleteCalls(drive_files)
                          \o UploadCalls(current_folder_files))
    /\ [][/\ (\E w \in Threads : thr[w].pc # "unborn") => syncCalls' = syncCalls
          /\ current_folder_files' # current_folder_files =>
                (previous_state = None /\ previous_state' = None)]_vars

\* the worker making a call for a diff, after a reconciliation that made a
\* delete and an upload
C22_Witness ==
    /\ \E w \in Threads : thr[w].pc = "remote"
    /\ Len(drive_files) >= 1
    /\ Len(current_folder_files) >= 1
    /\ Len(syncCalls) = Len(drive_files) + Len(current_folder_files)

====
